---- MODULE Spec2Model ----
(***************************************************************************)
(* Model of app.py of video-cutter: the /cut request handler, made of      *)
(* parse_ts_list, download_youtube (yt-dlp with cookies, then without) and *)
(* cut_and_concat (one ffmpeg extract per range, a concat manifest, one    *)
(* ffmpeg concat), run by concurrent requests over the shared directories  *)
(* downloads/, cuts/ and static/outputs/.                                  *)
(*                                                                         *)
(* Text is a sequence of one-character strings.  A diagnostic (the stderr  *)
(* of an external command, or an exception's message) is the set of the    *)
(* phrases it contains, so that Python's `phrase in error_msg` is          *)
(* membership.                                                             *)
(***************************************************************************)
EXTENDS Integers, Sequences, FiniteSets, TLC

\* ------------------------------------------------------------------------
\* Bounds of the model
\* ------------------------------------------------------------------------
\* the concurrent /cut requests
Reqs == {1, 2}

\* how many files earlier, finished requests can have left in downloads/
MaxOld == 1

\* how many clauses the timestamp lists given to parse_ts_list alone have
MaxClauses == 2

\* values uuid.uuid4().hex[:8] can take (a random draw, never checked for
\* being unused)
Tokens == {"a1b2c3d4", "e5f6a7b8"}

FirstToken == "a1b2c3d4"

\* no path, no match
None == <<>>

\* ------------------------------------------------------------------------
\* parse_ts_list  (app.py 36-53)
\* ------------------------------------------------------------------------
Digits == <<"0", "1", "2", "3", "4", "5", "6", "7", "8", "9">>

IsDigit(c) == \E k \in 1..10 : Digits[k] = c

DigitVal(c) == (CHOOSE k \in 1..10 : Digits[k] = c) - 1

IsSpace(c) == c \in {" ", "\t", "\n"}

\* str.strip(): drop leading and trailing whitespace
RECURSIVE LStrip(_)
LStrip(s) ==
    IF s # <<>> /\ IsSpace(Head(s)) THEN LStrip(Tail(s)) ELSE s

RECURSIVE RStrip(_)
RStrip(s) ==
    IF s # <<>> /\ IsSpace(s[Len(s)]) THEN RStrip(SubSeq(s, 1, Len(s) - 1)) ELSE s

Strip(s) == RStrip(LStrip(s))

\* str.split(","): the pieces between commas, empty pieces included
RECURSIVE SplitFrom(_, _, _)
SplitFrom(s, i, cur) ==
    IF i > Len(s) THEN <<cur>>
    ELSE IF s[i] = "," THEN <<cur>> \o SplitFrom(s, i + 1, <<>>)
    ELSE SplitFrom(s, i + 1, Append(cur, s[i]))

Split(s) == SplitFrom(s, 1, <<>>)

\* first position >= i of s that holds no digit (\d+ is greedy and the
\* character after it in TS_RE is never a digit)
RECURSIVE SkipDigits(_, _)
SkipDigits(s, i) ==
    IF i <= Len(s) /\ IsDigit(s[i]) THEN SkipDigits(s, i + 1) ELSE i

RECURSIVE SkipSpaces(_, _)
SkipSpaces(s, i) ==
    IF i <= Len(s) /\ IsSpace(s[i]) THEN SkipSpaces(s, i + 1) ELSE i

\* int() of a run of digits
RECURSIVE ToInt(_)
ToInt(ds) ==
    IF ds = <<>> THEN 0
    ELSE 10 * ToInt(SubSeq(ds, 1, Len(ds) - 1)) + DigitVal(ds[Len(ds)])

\* TS_RE.fullmatch(s): the four groups, or None
\*   \s*(\d+):(\d+)-(\d+):(\d+)\s*
TS_RE(s) ==
    LET a  == SkipSpaces(s, 1)
        b  == SkipDigits(s, a)
        c  == SkipDigits(s, b + 1)
        d  == SkipDigits(s, c + 1)
        e  == SkipDigits(s, d + 1)
        f  == SkipSpaces(s, e)
    IN  IF /\ b > a /\ b <= Len(s) /\ s[b] = ":"
           /\ c > b + 1 /\ c <= Len(s) /\ s[c] = "-"
           /\ d > c + 1 /\ d <= Len(s) /\ s[d] = ":"
           /\ e > d + 1
           /\ f = Len(s) + 1
        THEN <<SubSeq(s, a, b - 1), SubSeq(s, b + 1, c - 1),
               SubSeq(s, c + 1, d - 1), SubSeq(s, d + 1, e - 1)>>
        ELSE None

\* mutation: a clause whose end equals its start is let through
RECURSIVE ParsePartsLenient(_, _, _)
ParsePartsLenient(parts, k, out) ==
    IF k > Len(parts) THEN [ok |-> TRUE, out |-> out, err |-> "", part |-> 0]
    ELSE LET m == TS_RE(Strip(parts[k]))
         IN  IF m = None
             THEN [ok |-> FALSE, out |-> <<>>, err |-> "Bad timestamp", part |-> k]
             ELSE LET start == ToInt(m[1]) * 60 + ToInt(m[2])
                      end   == ToInt(m[3]) * 60 + ToInt(m[4])
                  IN  IF end < start
                      THEN [ok |-> FALSE, out |-> <<>>, err |-> "End <= start",
                            part |-> k]
                      ELSE ParsePartsLenient(parts, k + 1, Append(out, <<start, end>>))

\* mutation: a clause that is no timestamp is passed over
RECURSIVE ParsePartsSkipBad(_, _, _)
ParsePartsSkipBad(parts, k, out) ==
    IF k > Len(parts) THEN [ok |-> TRUE, out |-> out, err |-> "", part |-> 0]
    ELSE LET m == TS_RE(Strip(parts[k]))
         IN  IF m = None
             THEN ParsePartsSkipBad(parts, k + 1, out)
             ELSE LET start == ToInt(m[1]) * 60 + ToInt(m[2])
                      end   == ToInt(m[3]) * 60 + ToInt(m[4])
                  IN  IF end <= start
                      THEN [ok |-> FALSE, out |-> <<>>, err |-> "End <= start",
                            part |-> k]
                      ELSE ParsePartsSkipBad(parts, k + 1, Append(out, <<start, end>>))

\* the loop of parse_ts_list over parts[k..], out being the pairs so far;
\* a raise ends the loop with no pairs returned
RECURSIVE ParseParts(_, _, _)
ParseParts(parts, k, out) ==
    IF k > Len(parts) THEN [ok |-> TRUE, out |-> out, err |-> "", part |-> 0]
    ELSE LET m == TS_RE(Strip(parts[k]))
         IN  IF m = None
             THEN [ok |-> FALSE, out |-> <<>>, err |-> "Bad timestamp", part |-> k]
             ELSE LET start == ToInt(m[1]) * 60 + ToInt(m[2])
                      end   == ToInt(m[3]) * 60 + ToInt(m[4])
                  IN  IF end <= start
                      THEN [ok |-> FALSE, out |-> <<>>, err |-> "End <= start",
                            part |-> k]
                      ELSE ParseParts(parts, k + 1, Append(out, <<start, end>>))

\* mutation: out.append puts the new pair in front
RECURSIVE Prepended(_)
Prepended(q) == IF q = <<>> THEN <<>> ELSE Append(Prepended(Tail(q)), Head(q))

parse_ts_list_prepending(ts_string) ==
    LET p == ParseParts(Split(ts_string), 1, <<>>)
    IN  [p EXCEPT !.out = Prepended(p.out)]

parse_ts_list(ts_string) == ParseParts(Split(ts_string), 1, <<>>)

\* ------------------------------------------------------------------------
\* Timestamp lists parse_ts_list is tried on: up to MaxClauses clauses of
\* ClauseTable joined by commas.  Each clause comes with what it is (kind:
\* a valid clause, one whose end is not after its start, one that is no
\* mm:ss-mm:ss) and with the four numbers it spells.
\* ------------------------------------------------------------------------
ClauseTable ==
    << [text |-> <<"0", ":", "1", "0", "-", "0", ":", "2", "0">>,
        kind |-> "valid", m1 |-> 0, s1 |-> 10, m2 |-> 0, s2 |-> 20],
       [text |-> <<" ", "1", ":", "0", "0", "-", "1", ":", "0", "5">>,
        kind |-> "valid", m1 |-> 1, s1 |-> 0, m2 |-> 1, s2 |-> 5],
       [text |-> <<"1", "2", ":", "0", "5", "-", "1", "3", ":", "3", "0", " ">>,
        kind |-> "valid", m1 |-> 12, s1 |-> 5, m2 |-> 13, s2 |-> 30],
       [text |-> <<"1", ":", "5", "-", "1", ":", "7", "0">>,
        kind |-> "valid", m1 |-> 1, s1 |-> 5, m2 |-> 1, s2 |-> 70],
       [text |-> <<"1", "0", ":", "0", "0", "-", "9", ":", "5", "9">>,
        kind |-> "range", m1 |-> 10, s1 |-> 0, m2 |-> 9, s2 |-> 59],
       [text |-> <<"0", ":", "2", "0", "-", "0", ":", "2", "0">>,
        kind |-> "range", m1 |-> 0, s1 |-> 20, m2 |-> 0, s2 |-> 20],
       [text |-> <<"0", ":", "2", "0", "-", "0", ":", "1", "0">>,
        kind |-> "range", m1 |-> 0, s1 |-> 20, m2 |-> 0, s2 |-> 10],
       [text |-> <<"a", "b", "c">>,
        kind |-> "format", m1 |-> 0, s1 |-> 0, m2 |-> 0, s2 |-> 0],
       [text |-> <<>>,
        kind |-> "format", m1 |-> 0, s1 |-> 0, m2 |-> 0, s2 |-> 0],
       [text |-> <<" ">>,
        kind |-> "format", m1 |-> 0, s1 |-> 0, m2 |-> 0, s2 |-> 0],
       [text |-> <<"0", ":", "1", "0", " ", "-", "0", ":", "2", "0">>,
        kind |-> "format", m1 |-> 0, s1 |-> 0, m2 |-> 0, s2 |-> 0],
       [text |-> <<"0", ":", "1", "0">>,
        kind |-> "format", m1 |-> 0, s1 |-> 0, m2 |-> 0, s2 |-> 0] >>

ClauseLists ==
    UNION {[1..n -> 1..Len(ClauseTable)] : n \in 1..MaxClauses}

\* ",".join of the texts of the clauses cs
RECURSIVE TsString(_)
TsString(cs) ==
    IF Len(cs) = 1 THEN ClauseTable[cs[1]].text
    ELSE ClauseTable[cs[1]].text \o <<",">> \o TsString(Tail(cs))

\* ------------------------------------------------------------------------
\* Inputs of a request and outcomes of the external commands
\* ------------------------------------------------------------------------
\* values of the form field "url"
UrlInputs == {<<>>, <<" ">>, <<"A">>, <<"B">>}

\* values of the form field "timestamps":
\*   "", "0:10-0:20", "abc", "0:20-0:10"
TsInputs ==
    { <<>>,
      <<"0", ":", "1", "0", "-", "0", ":", "2", "0">>,
      <<"a", "b", "c">>,
      <<"0", ":", "2", "0", "-", "0", ":", "1", "0">> }

\* "0:30-0:40, 0:05-0:35": two ranges, out of order and overlapping
TsTwoRanges ==
    <<"0", ":", "3", "0", "-", "0", ":", "4", "0", ",", " ",
      "0", ":", "0", "5", "-", "0", ":", "3", "5">>

\* what yt-dlp can print on stderr when it exits non-zero
DlDiags ==
    { {"ERROR: unable to extract"},
      {"ERROR: network unreachable"},
      {"HTTP Error 429"},
      {"Too Many Requests"},
      {"This content isn't available"},
      {"Sign in to confirm you're not a bot"},
      {"HTTP Error 429", "This content isn't available"} }

\* what ffmpeg prints on stderr when it exits non-zero
FfmpegDiag == {"ffmpeg: conversion failed"}

\* `phrase in msg` on text: "content isn't available" is a substring of
\* "This content isn't available", "429" of "HTTP Error 429"
Contains(msg, phrase) ==
    \/ phrase \in msg
    \/ phrase = "content isn't available" /\ "This content isn't available" \in msg
    \/ phrase = "429" /\ "HTTP Error 429" \in msg

\* the id yt-dlp puts in place of %(id)s: one id per video, the same for
\* every request that names the video
VideoId(u) == IF u = <<"A">> THEN "idA" ELSE "idB"

\* ------------------------------------------------------------------------
\* Paths and directories.  A path is a tuple of strings that starts with its
\* directory; a directory is the set of its files, a file being
\* [path, mtime, by, content], by the request that wrote it (0: an earlier,
\* finished request) and content a sequence of lines or of source paths.
\* ------------------------------------------------------------------------
\* out_tmpl with %(id)s and %(ext)s filled in by yt-dlp
DlPath(u) == <<"downloads", VideoId(u), "mp4">>

\* CUT_DIR / f"cut_{uuid.uuid4().hex[:8]}_{i}.mp4", i counted from 0
ClipPath(tok, i) == <<"cuts", "cut", tok, Digits[i + 1], "mp4">>

\* CUT_DIR / f"concat_{uuid.uuid4().hex[:8]}.txt"
ManifestPath(tok) == <<"cuts", "concat", tok, "txt">>

\* OUT_DIR / f"clip_{uuid.uuid4().hex[:8]}.mp4"
FinalPath(tok) == <<"outputs", "clip", tok, "mp4">>

\* Path.name
Name(p) == Tail(p)

Paths(dir) == {f.path : f \in dir}

Exists(dir, p) == p \in Paths(dir)

FileAt(dir, p) == CHOOSE f \in dir : f.path = p

\* the directory after request r wrote content c to path p at time t
WriteFile(dir, p, t, r, c) ==
    {f \in dir : f.path # p}
        \cup {[path |-> p, mtime |-> t, by |-> r, content |-> c]}

\* DL_DIR.glob("*.mp4")
GlobMp4(dir) == {f \in dir : f.path[Len(f.path)] = "mp4"}

\* files[0] of sorted(DL_DIR.glob("*.mp4"), key=mtime, reverse=True): a file
\* no other is newer than
Newest(dir) ==
    {f \in GlobMp4(dir) : \A g \in GlobMp4(dir) : g.mtime <= f.mtime}

\* ------------------------------------------------------------------------
\* State
\* ------------------------------------------------------------------------
VARIABLES
    pc,           \* where each request is in cut()
    url,          \* cut: url
    segs,         \* cut: segs
    error_msg,    \* download_youtube: error_msg of the first except block
    src,          \* cut: src, the path download_youtube returned
    cuts,         \* cut_and_concat: cuts
    concat_list,  \* cut_and_concat: concat_list
    final,        \* cut_and_concat: final
    result,       \* the response of cut(): a redirect to preview or an error
    DL_DIR,       \* downloads/
    CUT_DIR,      \* cuts/
    OUT_DIR,      \* static/outputs/
    clock,        \* the time, as far as the mtimes in downloads/ tell it
    dlLog,        \* history: the yt-dlp invocations of each request
    exLog,        \* history: the ffmpeg extract invocations of each request
    catLog,       \* history: the ffmpeg concat invocations of each request
    srcBy,        \* history: who wrote the file download_youtube returned
    writes,       \* history: [req, path] of every file written
    scope,        \* which family of inputs the run draws from
    form,         \* history: the form fields each request was posted with
    ptest         \* a timestamp list and what parse_ts_list made of it

vars == <<pc, url, segs, error_msg, src, cuts, concat_list, final, result,
          DL_DIR, CUT_DIR, OUT_DIR, clock, dlLog, exLog, catLog, srcBy, writes,
          scope, form, ptest>>

dlVars == <<error_msg, src, srcBy, dlLog, DL_DIR>>

cutVars == <<cuts, concat_list, final, CUT_DIR, OUT_DIR, exLog, catLog>>

Pending == [kind |-> "pending", msg |-> {}, vid |-> None]

\* flash(f"Error: {str(e)}", "error"); redirect(url_for("index"))
Error(m) == [kind |-> "error", msg |-> m, vid |-> None]

\* redirect(url_for("preview", vid=final_mp4.name))
Redirect(v) == [kind |-> "preview", msg |-> {}, vid |-> v]

\* the k-th file an earlier, finished request left in downloads/
OldFile(k) ==
    [path |-> <<"downloads", "old", Digits[k + 1], "mp4">>, mtime |-> 0 - k,
     by |-> 0, content |-> <<>>]

NoOne == -1

\* the returncode the history keeps for a process that never exits
NoExit == -1

\* no form posted yet
NoForm == [url |-> <<>>, timestamps |-> <<>>]

\* no timestamp list under test
NoTest == [clauses |-> <<>>, parsed |-> FALSE, res |-> [ok |-> FALSE, out |-> <<>>, err |-> "", part |-> 0]]

InitCut ==
    /\ pc = [r \in Reqs |-> "idle"]
    /\ url = [r \in Reqs |-> <<>>]
    /\ segs = [r \in Reqs |-> <<>>]
    /\ error_msg = [r \in Reqs |-> {}]
    /\ src = [r \in Reqs |-> None]
    /\ cuts = [r \in Reqs |-> <<>>]
    /\ concat_list = [r \in Reqs |-> None]
    /\ final = [r \in Reqs |-> None]
    /\ result = [r \in Reqs |-> Pending]
    /\ DL_DIR \in {{OldFile(k) : k \in 1..n} : n \in 0..MaxOld}
    /\ CUT_DIR = {}
    /\ OUT_DIR = {}
    /\ clock = 1
    /\ dlLog = [r \in Reqs |-> <<>>]
    /\ exLog = [r \in Reqs |-> <<>>]
    /\ catLog = [r \in Reqs |-> <<>>]
    /\ srcBy = [r \in Reqs |-> NoOne]
    /\ writes = {}
    /\ scope \in {"acquire", "cut"}
    /\ form = [r \in Reqs |-> NoForm]

Init == InitCut /\ ptest = NoTest

\* ------------------------------------------------------------------------
\* run  (app.py 55-59)
\* ------------------------------------------------------------------------
\* mutation: the exit status is not looked at
RunNeverRaises(returncode) == FALSE

\* run raises RuntimeError(stderr) exactly when the command exits non-zero
RunRaises(returncode) == returncode # 0

\* the exit status, stderr and file effect an external command can have:
\* exit 0 with or without having written its output file, or exit non-zero
\* with a diagnostic out of diags, its output file left behind or not
Outcomes(diags) ==
    [returncode : {0}, stderr : {{}}, wrote : BOOLEAN]
        \cup [returncode : {1}, stderr : diags, wrote : BOOLEAN]

\* yt-dlp: exit 0 with a new .mp4 or with none (the video was downloaded
\* before, the URL names nothing to download); a run that exits non-zero is
\* taken to leave no finished .mp4
DlOutcomes == {o \in Outcomes(DlDiags) : o.returncode # 0 => ~o.wrote}

\* The model explores two families of runs, told apart by scope, which no
\* action changes.
\*   "acquire": two videos, every outcome of yt-dlp, timestamp inputs of at
\*              most one range, and token draws that never coincide;
\*   "cut":     one video, of yt-dlp only success and one unclassified
\*              failure, the timestamp input of two ranges, and token draws
\*              that may coincide.
UrlInputsIn(sc) == IF sc = "cut" THEN UrlInputs \ {<<"B">>} ELSE UrlInputs

TsInputsIn(sc) ==
    IF sc = "cut"
    THEN (TsInputs \ {<<"0", ":", "1", "0", "-", "0", ":", "2", "0">>})
             \cup {TsTwoRanges}
    ELSE TsInputs

DlOutcomesIn(sc) ==
    IF sc = "cut"
    THEN {o \in DlOutcomes :
            IF o.returncode = 0 THEN o.wrote
            ELSE o.stderr = {"ERROR: unable to extract"}}
    ELSE DlOutcomes

\* ffmpeg: exit 0 with its output written, or exit non-zero with the output
\* left behind unfinished or not there
FfmpegOutcomes == {o \in Outcomes({FfmpegDiag}) : o.returncode = 0 => o.wrote}

\* the values a draw of uuid.uuid4().hex[:8] is given in the model: names
\* of one kind only ever meet names of that kind and token values are
\* interchangeable, so the first draw for a kind of name is FirstToken; a
\* later one is free to coincide with it or not in scope "cut" and differs
\* from it in scope "acquire"
Draw(drawnBefore, sc) ==
    IF ~drawnBefore THEN {FirstToken}
    ELSE IF sc = "cut" THEN Tokens
    ELSE Tokens \ {FirstToken}

\* the effect on directory dir and the write history of a command of request
\* r whose output path is p, at time t
FileEffect(dir, r, p, t, c, wrote) ==
    IF wrote
    THEN /\ dir' = WriteFile(dir, p, t, r, c)
         /\ writes' = writes \cup {[req |-> r, path |-> p]}
    ELSE UNCHANGED <<dir, writes>>

\* ------------------------------------------------------------------------
\* cut, up to the call of download_youtube  (app.py 153-166)
\* ------------------------------------------------------------------------
Finish(r, res) ==
    /\ pc' = [pc EXCEPT ![r] = "done"]
    /\ result' = [result EXCEPT ![r] = res]

\* mutation: timestamps that do not parse are let through, with no range
SubmitUnparsed(r) ==
    /\ pc[r] = "idle"
    /\ \E u \in UrlInputsIn(scope), t \in TsInputsIn(scope) :
         /\ form' = [form EXCEPT ![r] = [url |-> u, timestamps |-> t]]
         /\ LET u1 == Strip(u)
                t1 == Strip(t)
                p  == parse_ts_list(t1)
            IN  IF u1 = <<>>
                THEN /\ Finish(r, Error({"Please provide a YouTube URL."}))
                     /\ UNCHANGED <<url, segs>>
                ELSE IF t1 = <<>>
                THEN /\ Finish(r, Error({"Please provide timestamps."}))
                     /\ UNCHANGED <<url, segs>>
                ELSE /\ url' = [url EXCEPT ![r] = u1]
                     /\ segs' = [segs EXCEPT ![r] = p.out]
                     /\ pc' = [pc EXCEPT ![r] = "dl_cookies"]
                     /\ UNCHANGED result
    /\ UNCHANGED <<dlVars, cutVars, clock, writes, scope, ptest>>

Submit(r) ==
    /\ pc[r] = "idle"
    /\ \E u \in UrlInputsIn(scope), t \in TsInputsIn(scope) :
         /\ form' = [form EXCEPT ![r] = [url |-> u, timestamps |-> t]]
         /\ LET u1 == Strip(u)
                t1 == Strip(t)
                p  == parse_ts_list(t1)
            IN  IF u1 = <<>>
                THEN /\ Finish(r, Error({"Please provide a YouTube URL."}))
                     /\ UNCHANGED <<url, segs>>
                ELSE IF t1 = <<>>
                THEN /\ Finish(r, Error({"Please provide timestamps."}))
                     /\ UNCHANGED <<url, segs>>
                ELSE IF ~p.ok
                THEN /\ Finish(r, Error({p.err}))
                     /\ UNCHANGED <<url, segs>>
                ELSE /\ url' = [url EXCEPT ![r] = u1]
                     /\ segs' = [segs EXCEPT ![r] = p.out]
                     /\ pc' = [pc EXCEPT ![r] = "dl_cookies"]
                     /\ UNCHANGED result
    /\ UNCHANGED <<dlVars, cutVars, clock, writes, scope, ptest>>

\* ------------------------------------------------------------------------
\* download_youtube  (app.py 80-121)
\* ------------------------------------------------------------------------
\* mutation: "Too Many Requests" is not recognised
IsRateLimited429Only(msg) == Contains(msg, "429")

IsRateLimited(msg) == Contains(msg, "429") \/ Contains(msg, "Too Many Requests")

IsUnavailable(msg) ==
    \/ Contains(msg, "content isn't available")
    \/ Contains(msg, "This content isn't available")

\* mutation: the bot check is not recognised
IsBotCheckNever(msg) == FALSE

IsBotCheck(msg) == Contains(msg, "Sign in to confirm you're not a bot")

\* the message of the error the first except block raises for error_msg,
\* {} when it raises none and goes on to the attempt without cookies
Reraised(msg) ==
    IF IsRateLimited(msg) THEN {"YouTube is rate limiting requests."}
    ELSE IF IsUnavailable(msg) THEN {"This video is not available."}
    ELSE IF IsBotCheck(msg)
    THEN {"YouTube requires authentication for this video."}
    ELSE {}

\* mutation: the message carries the error of the attempt without cookies
UnableMessageLast(msg, no_cookie_error) ==
    {"Unable to download video."} \cup no_cookie_error

\* f"Unable to download video. Error: {error_msg}. Please try ..."
UnableMessage(msg, no_cookie_error) == {"Unable to download video."} \cup msg

\* str(FileNotFoundError("Download failed: no mp4 created."))
NoMp4Message == {"Download failed: no mp4 created."}

\* the first except block, entered with str(e) = msg
ExceptCookies(r, msg) ==
    /\ error_msg' = [error_msg EXCEPT ![r] = msg]
    /\ IF Reraised(msg) # {}
       THEN Finish(r, Error(Reraised(msg)))
       ELSE /\ pc' = [pc EXCEPT ![r] = "dl_no_cookies"]
            /\ UNCHANGED result

\* the second except block, entered with no_cookie_error
ExceptNoCookies(r, no_cookie_error) ==
    /\ Finish(r, Error(UnableMessage(error_msg[r], no_cookie_error)))
    /\ UNCHANGED error_msg

\* mutation: the second command line passes --cookies as the first does
DlCallWithCookies(withCookies, o) ==
    [cookies |-> TRUE, returncode |-> o.returncode, stderr |-> o.stderr,
     wrote |-> o.wrote, found |-> FALSE]

\* one yt-dlp invocation as the history keeps it; found is set by the glob
\* that follows an exit 0
DlCall(withCookies, o) ==
    [cookies |-> withCookies, returncode |-> o.returncode, stderr |-> o.stderr,
     wrote |-> o.wrote, found |-> FALSE]

\* mutation: a found file does not end the attempts
ReturnFileAndGoOn(r, f) ==
    /\ src' = [src EXCEPT ![r] = f.path]
    /\ srcBy' = [srcBy EXCEPT ![r] = f.by]
    /\ dlLog' = [dlLog EXCEPT ![r][Len(dlLog[r])].found = TRUE]
    /\ pc' = [pc EXCEPT ![r] =
                 IF pc[r] = "glob_cookies" THEN "dl_no_cookies" ELSE "extract"]
    /\ UNCHANGED <<error_msg, result>>

\* return files[0]: download_youtube is over and cut goes on to
\* cut_and_concat
ReturnFile(r, f) ==
    /\ src' = [src EXCEPT ![r] = f.path]
    /\ srcBy' = [srcBy EXCEPT ![r] = f.by]
    /\ dlLog' = [dlLog EXCEPT ![r][Len(dlLog[r])].found = TRUE]
    /\ pc' = [pc EXCEPT ![r] = "extract"]
    /\ UNCHANGED <<error_msg, result>>

\* run(cmd), yt-dlp --cookies cookies.txt
DlRunCookies(r) ==
    /\ pc[r] = "dl_cookies"
    /\ \E o \in DlOutcomesIn(scope) :
         /\ dlLog' = [dlLog EXCEPT ![r] = Append(@, DlCall(TRUE, o))]
         /\ FileEffect(DL_DIR, r, DlPath(url[r]), clock, <<>>, o.wrote)
         /\ clock' = IF o.wrote THEN clock + 1 ELSE clock
         /\ IF RunRaises(o.returncode)
            THEN ExceptCookies(r, o.stderr)
            ELSE /\ pc' = [pc EXCEPT ![r] = "glob_cookies"]
                 /\ UNCHANGED <<error_msg, result>>
    /\ UNCHANGED <<ptest, form, scope, url, segs, src, srcBy, cutVars>>

\* files = sorted(DL_DIR.glob("*.mp4"), ...) after the run with cookies
DlGlobCookies(r) ==
    /\ pc[r] = "glob_cookies"
    /\ IF GlobMp4(DL_DIR) = {}
       THEN /\ ExceptCookies(r, NoMp4Message)
            /\ UNCHANGED <<src, srcBy, dlLog>>
       ELSE \E f \in Newest(DL_DIR) : ReturnFile(r, f)
    /\ UNCHANGED <<ptest, form, scope, url, segs, DL_DIR, cutVars, clock, writes>>

\* run(cmd_no_cookies)
DlRunNoCookies(r) ==
    /\ pc[r] = "dl_no_cookies"
    /\ \E o \in DlOutcomesIn(scope) :
         /\ dlLog' = [dlLog EXCEPT ![r] = Append(@, DlCall(FALSE, o))]
         /\ FileEffect(DL_DIR, r, DlPath(url[r]), clock, <<>>, o.wrote)
         /\ clock' = IF o.wrote THEN clock + 1 ELSE clock
         /\ IF RunRaises(o.returncode)
            THEN ExceptNoCookies(r, o.stderr)
            ELSE /\ pc' = [pc EXCEPT ![r] = "glob_no_cookies"]
                 /\ UNCHANGED <<error_msg, result>>
    /\ UNCHANGED <<ptest, form, scope, url, segs, src, srcBy, cutVars>>

\* files = sorted(DL_DIR.glob("*.mp4"), ...) after the run without cookies
DlGlobNoCookies(r) ==
    /\ pc[r] = "glob_no_cookies"
    /\ IF GlobMp4(DL_DIR) = {}
       THEN /\ ExceptNoCookies(r, NoMp4Message)
            /\ UNCHANGED <<src, srcBy, dlLog>>
       ELSE \E f \in Newest(DL_DIR) : ReturnFile(r, f)
    /\ UNCHANGED <<ptest, form, scope, url, segs, DL_DIR, cutVars, clock, writes>>

\* ------------------------------------------------------------------------
\* cut_and_concat  (app.py 123-146) and the end of cut  (app.py 169-176)
\* ------------------------------------------------------------------------
\* one line of the manifest: f"file '{p}'"
ManifestLine(p) == <<"file">> \o p

RECURSIVE Reverse(_)
Reverse(q) == IF q = <<>> THEN <<>> ELSE Append(Reverse(Tail(q)), Head(q))

\* mutation: the manifest lists the clips last first
ManifestTextReversed(ps) == [k \in 1..Len(ps) |-> ManifestLine(Reverse(ps)[k])]

\* "\n".join(f"file '{p}'" for p in cuts): the lines of the manifest
ManifestText(ps) == [k \in 1..Len(ps) |-> ManifestLine(ps[k])]

ExCall(i, seg, out, o) ==
    [index |-> i, range |-> seg, out |-> out, returncode |-> o.returncode]

\* one turn of the loop: a fresh name, run(ffmpeg -ss st -to en -i src out),
\* cuts.append(out); a raise of run leaves cut_and_concat and ends cut in
\* its except block
Extract(r) ==
    /\ pc[r] = "extract"
    /\ Len(cuts[r]) < Len(segs[r])
    /\ \E tok \in Draw(\E q \in Reqs : Len(exLog[q]) > Len(exLog[r]), scope),
          o \in FfmpegOutcomes :
         LET i   == Len(cuts[r])
             out == ClipPath(tok, i)
         IN  /\ exLog' = [exLog EXCEPT ![r] = Append(@, ExCall(i, segs[r][i + 1], out, o))]
             /\ FileEffect(CUT_DIR, r, out, 0, <<src[r]>>, o.wrote)
             /\ IF RunRaises(o.returncode)
                THEN /\ Finish(r, Error(o.stderr))
                     /\ UNCHANGED cuts
                ELSE /\ cuts' = [cuts EXCEPT ![r] = Append(@, out)]
                     /\ UNCHANGED <<pc, result>>
    /\ UNCHANGED <<ptest, form, scope, url, segs, dlVars, concat_list, final, OUT_DIR, catLog, clock>>

\* after the loop: concat_list.write_text(...)
WriteManifest(r) ==
    /\ pc[r] = "extract"
    /\ Len(cuts[r]) = Len(segs[r])
    /\ \E tok \in Draw(\E q \in Reqs : concat_list[q] # None, scope) :
         /\ concat_list' = [concat_list EXCEPT ![r] = ManifestPath(tok)]
         /\ FileEffect(CUT_DIR, r, ManifestPath(tok), 0, ManifestText(cuts[r]), TRUE)
    /\ pc' = [pc EXCEPT ![r] = "concat"]
    /\ UNCHANGED <<ptest, form, scope, url, segs, dlVars, cuts, final, result, OUT_DIR, exLog, catLog,
                   clock>>

\* what ffmpeg reads at path p: the lines of the file there
ReadLines(dir, p) == IF Exists(dir, p) THEN FileAt(dir, p).content ELSE <<>>

CatCall(manifest, out, o) ==
    [manifest |-> manifest, out |-> out, returncode |-> o.returncode]

\* a fresh final name, run(ffmpeg -f concat -i concat_list -c copy final),
\* return final; then cut redirects to the preview of final.name
Concat(r) ==
    /\ pc[r] = "concat"
    /\ \E tok \in Draw(\E q \in Reqs : final[q] # None, scope),
          o \in FfmpegOutcomes :
         LET out == FinalPath(tok)
         IN  /\ final' = [final EXCEPT ![r] = out]
             /\ catLog' = [catLog EXCEPT ![r] = Append(@, CatCall(concat_list[r], out, o))]
             /\ FileEffect(OUT_DIR, r, out, 0, ReadLines(CUT_DIR, concat_list[r]), o.wrote)
             /\ IF RunRaises(o.returncode)
                THEN Finish(r, Error(o.stderr))
                ELSE Finish(r, Redirect(Name(out)))
    /\ UNCHANGED <<ptest, form, scope, url, segs, dlVars, cuts, concat_list, CUT_DIR, exLog, clock>>

\* ------------------------------------------------------------------------
\* preview  (app.py 178-188)
\* ------------------------------------------------------------------------
\* GET /preview/<vid>: the page that plays static/outputs/<vid> when that
\* file exists, a redirect to the index with "Video file not found" when
\* not; it reads OUT_DIR and changes nothing
preview(vid) ==
    IF Exists(OUT_DIR, <<"outputs">> \o vid)
    THEN [kind |-> "render", video_file |-> <<"static", "outputs">> \o vid]
    ELSE [kind |-> "not_found", video_file |-> None]

\* ------------------------------------------------------------------------
\* run, when the command never exits  (app.py 57)
\* ------------------------------------------------------------------------
\* the outcome the history keeps for a process that has not exited
StillRunning == [returncode |-> NoExit, stderr |-> {}, wrote |-> FALSE]

\* subprocess.run(shlex.split(cmd), stderr=subprocess.PIPE) is given no
\* timeout: it returns when the process exits, and a process that never
\* exits keeps the request in run
RunHangs(r) ==
    /\ \/ /\ pc[r] = "dl_cookies"
          /\ dlLog' = [dlLog EXCEPT ![r] = Append(@, DlCall(TRUE, StillRunning))]
          /\ UNCHANGED <<exLog, catLog, final>>
       \/ /\ pc[r] = "dl_no_cookies"
          /\ dlLog' = [dlLog EXCEPT ![r] = Append(@, DlCall(FALSE, StillRunning))]
          /\ UNCHANGED <<exLog, catLog, final>>
       \/ /\ pc[r] = "extract"
          /\ Len(cuts[r]) < Len(segs[r])
          /\ \E tok \in Draw(\E q \in Reqs : Len(exLog[q]) > Len(exLog[r]), scope) :
                LET i == Len(cuts[r])
                IN  exLog' = [exLog EXCEPT ![r] =
                                 Append(@, ExCall(i, segs[r][i + 1], ClipPath(tok, i),
                                                  StillRunning))]
          /\ UNCHANGED <<dlLog, catLog, final>>
       \/ /\ pc[r] = "concat"
          /\ \E tok \in Draw(\E q \in Reqs : final[q] # None, scope) :
                /\ final' = [final EXCEPT ![r] = FinalPath(tok)]
                /\ catLog' = [catLog EXCEPT ![r] =
                                  Append(@, CatCall(concat_list[r], FinalPath(tok),
                                                    StillRunning))]
          /\ UNCHANGED <<dlLog, exLog>>
    /\ pc' = [pc EXCEPT ![r] = "in_run"]
    /\ UNCHANGED <<ptest, form, scope, url, segs, error_msg, src, srcBy, cuts,
                   concat_list, result, DL_DIR, CUT_DIR, OUT_DIR, clock, writes>>

\* ------------------------------------------------------------------------
\* Specification
\* ------------------------------------------------------------------------
\* the steps of request r
Step(r) ==
    \/ Submit(r)
    \/ DlRunCookies(r)
    \/ DlGlobCookies(r)
    \/ DlRunNoCookies(r)
    \/ DlGlobNoCookies(r)
    \/ Extract(r)
    \/ WriteManifest(r)
    \/ Concat(r)
    \/ RunHangs(r)

Next ==
    \E r \in Reqs :
        \/ RunHangs(r)
        \/ Submit(r)
        \/ DlRunCookies(r)
        \/ DlGlobCookies(r)
        \/ DlRunNoCookies(r)
        \/ DlGlobNoCookies(r)
        \/ Extract(r)
        \/ WriteManifest(r)
        \/ Concat(r)

Spec == Init /\ [][Next]_vars

\* ------------------------------------------------------------------------
\* parse_ts_list on its own: one list of ClauseLists, parsed once
\* ------------------------------------------------------------------------
InitParse ==
    /\ InitCut
    /\ scope = "cut"
    /\ DL_DIR = {}
    /\ ptest \in {[NoTest EXCEPT !.clauses = cs] : cs \in ClauseLists}

ParseList ==
    /\ ~ptest.parsed
    /\ ptest' = [ptest EXCEPT !.parsed = TRUE,
                              !.res = parse_ts_list(TsString(ptest.clauses))]
    /\ UNCHANGED <<pc, url, segs, error_msg, src, cuts, concat_list, final, result,
                   DL_DIR, CUT_DIR, OUT_DIR, clock, dlLog, exLog, catLog, srcBy,
                   writes, scope, form>>

SpecParse == InitParse /\ [][ParseList]_vars

\* ------------------------------------------------------------------------
\* Properties of download_youtube
\* ------------------------------------------------------------------------
\* the attempts of request r, in the order made
Attempts(r) == 1..Len(dlLog[r])

\* attempt c ended in success: yt-dlp exited 0 and the glob found a file
Succeeded(c) == c.returncode = 0 /\ c.found

\* str(e) of the exception a failed attempt c ended with
AttemptMessage(c) == IF c.returncode # 0 THEN c.stderr ELSE NoMp4Message

\* download_youtube of request r is over and raised
AcquisitionFailed(r) == pc[r] = "done" /\ dlLog[r] # <<>> /\ src[r] = None

SaysUnavailable(msg) ==
    \/ Contains(msg, "content isn't available")
    \/ Contains(msg, "Sign in to confirm you're not a bot")

SaysRateLimited(msg) ==
    Contains(msg, "429") \/ Contains(msg, "Too Many Requests")

\* C1: once an attempt of an acquisition has succeeded (yt-dlp exited 0 and
\* a file was found), that acquisition invokes yt-dlp no more: a successful
\* attempt is the last of its request.
C1_NoAttemptAfterSuccess ==
    \A r \in Reqs : \A k \in Attempts(r) :
        Succeeded(dlLog[r][k]) => k = Len(dlLog[r])

\* a request whose attempt with cookies succeeded has gone on to the end of
\* cut with that one invocation
C1_Witness ==
    \E r \in Reqs :
        /\ Len(dlLog[r]) = 1
        /\ Succeeded(dlLog[r][1])
        /\ pc[r] = "done"
        /\ result[r].kind = "preview"

\* C2: a failed attempt whose diagnostic contains "content isn't available"
\* or "Sign in to confirm you're not a bot" is the last invocation of yt-dlp
\* for its request, and the request does not go on to the attempt without
\* cookies: it ends in an error with no source file.
C2_UnavailableAborts ==
    \A r \in Reqs : \A k \in Attempts(r) :
        (dlLog[r][k].returncode # 0 /\ SaysUnavailable(dlLog[r][k].stderr))
            => /\ k = Len(dlLog[r])
               /\ pc[r] = "done"
               /\ src[r] = None
               /\ result[r].kind = "error"

\* the attempt with cookies failed on the bot check and the request is over
C2_Witness ==
    \E r \in Reqs :
        /\ Len(dlLog[r]) = 1
        /\ dlLog[r][1].cookies
        /\ Contains(dlLog[r][1].stderr, "Sign in to confirm you're not a bot")
        /\ pc[r] = "done"

BothFailedUnclassified(r) ==
    /\ AcquisitionFailed(r)
    /\ Len(dlLog[r]) = 2
    /\ \A k \in 1..2 :
          /\ ~SaysUnavailable(AttemptMessage(dlLog[r][k]))
          /\ ~SaysRateLimited(AttemptMessage(dlLog[r][k]))

\* C4 as stated: when both attempts failed unclassified, the error raised
\* holds the failure message of the attempt with cookies and that of the
\* attempt without.
C4_Original ==
    \A r \in Reqs :
        BothFailedUnclassified(r)
            => /\ AttemptMessage(dlLog[r][1]) \subseteq result[r].msg
               /\ AttemptMessage(dlLog[r][2]) \subseteq result[r].msg

\* C4 amended: when both attempts failed unclassified, the error raised is
\* "Unable to download video." with the failure message of the attempt with
\* cookies and nothing else: the message of the attempt without cookies is
\* not in it unless it is the same text.
C4_FirstErrorOnly ==
    \A r \in Reqs :
        BothFailedUnclassified(r)
            => result[r] =
                  Error({"Unable to download video."}
                            \cup AttemptMessage(dlLog[r][1]))

\* both attempts failed unclassified, with different messages
C4_Witness ==
    \E r \in Reqs :
        /\ BothFailedUnclassified(r)
        /\ AttemptMessage(dlLog[r][1]) # AttemptMessage(dlLog[r][2])

\* C5 as stated: an attempt that found a file is one whose own yt-dlp run
\* created a file; an exit 0 that created none is a failed attempt.
C5_Original ==
    \A r \in Reqs : \A k \in Attempts(r) :
        dlLog[r][k].found => dlLog[r][k].wrote

\* ------------------------------------------------------------------------
\* Properties of cut_and_concat
\* ------------------------------------------------------------------------
\* the manifest of request r is on disk as r wrote it
OwnManifest(r) ==
    /\ concat_list[r] # None
    /\ Exists(CUT_DIR, concat_list[r])
    /\ FileAt(CUT_DIR, concat_list[r]).by = r

\* C6: the extract invocations of a request are, in the order made, for the
\* ranges of its list in list order, the k-th for the k-th range and no
\* range twice; once the manifest is written there has been one invocation
\* per range, and the k-th line of the manifest names the clip the k-th
\* invocation wrote.
C6_ExtractAndManifestInInputOrder ==
    \A r \in Reqs :
        /\ Len(exLog[r]) <= Len(segs[r])
        /\ \A k \in 1..Len(exLog[r]) :
              /\ exLog[r][k].index = k - 1
              /\ exLog[r][k].range = segs[r][k]
        /\ concat_list[r] # None => Len(exLog[r]) = Len(segs[r])
        /\ OwnManifest(r)
              => FileAt(CUT_DIR, concat_list[r]).content =
                    [k \in 1..Len(segs[r]) |-> ManifestLine(exLog[r][k].out)]

\* a request with two ranges, the second starting before the first and
\* overlapping it, has its manifest on disk
C6_Witness ==
    \E r \in Reqs :
        /\ Len(segs[r]) = 2
        /\ segs[r][2][1] < segs[r][1][1]
        /\ segs[r][2][2] > segs[r][1][1]
        /\ OwnManifest(r)
        /\ pc[r] = "done"

\* request r has written, or left behind, a file of directory dir whose
\* name starts with kind
Wrote(r, dir, kind) ==
    \E w \in writes : w.req = r /\ w.path[1] = dir /\ w.path[2] = kind

\* C7: an extract invocation that failed is the last one of its request; the
\* request is over with an error, it wrote no manifest, invoked no concat
\* and put no final artifact in the output directory.
C7_ExtractFailureAborts ==
    \A r \in Reqs : \A k \in 1..Len(exLog[r]) :
        exLog[r][k].returncode > 0
            => /\ k = Len(exLog[r])
               /\ pc[r] = "done"
               /\ result[r].kind = "error"
               /\ concat_list[r] = None
               /\ ~Wrote(r, "cuts", "concat")
               /\ catLog[r] = <<>>
               /\ final[r] = None
               /\ ~Wrote(r, "outputs", "clip")

\* a request with two ranges whose first extraction failed
C7_Witness ==
    \E r \in Reqs :
        /\ Len(segs[r]) = 2
        /\ Len(exLog[r]) = 1
        /\ exLog[r][1].returncode > 0
        /\ pc[r] = "done"

\* C8 as stated: once the concat of a request has finished, with success or
\* with failure, the manifest the request wrote is no longer in cuts/.
C8_Original ==
    \A r \in Reqs :
        (pc[r] = "done" /\ catLog[r] # <<>>) => ~Exists(CUT_DIR, concat_list[r])

\* ------------------------------------------------------------------------
\* Properties of concurrent requests
\* ------------------------------------------------------------------------
\* C9 as stated: two requests for the same source reference never write to
\* the same path of downloads/, cuts/ or outputs/.
C9_Original ==
    \A w1, w2 \in writes :
        (w1.req # w2.req /\ url[w1.req] = url[w2.req]) => w1.path # w2.path

\* C10 as stated: the file download_youtube returns to a request was not put
\* in downloads/ by the run of another of the concurrent requests.
C10_Original ==
    \A r \in Reqs : \A q \in Reqs \ {r} : srcBy[r] # q

\* ------------------------------------------------------------------------
\* Properties of run and of cut as a whole
\* ------------------------------------------------------------------------
\* C11 as stated: no external invocation keeps a request for ever: a request
\* that has not answered can always take a further step, also when the
\* process it started never exits (the invocation then ends in a failure).
C11_Original ==
    \A r \in Reqs : pc[r] = "done" \/ ENABLED Step(r)

\* the /cut of request r has answered with an error
CutFailed(r) == pc[r] = "done" /\ result[r].kind = "error"

\* C12 as stated: once a /cut has answered with an error, outputs/ holds no
\* file that request wrote, and /preview of a name the request wrote there
\* answers not found.
C12_Original ==
    \A r \in Reqs :
        CutFailed(r)
            => /\ \A f \in OUT_DIR : f.by # r
               /\ \A w \in writes :
                     (w.req = r /\ w.path[1] = "outputs")
                         => preview(Name(w.path)).kind = "not_found"

\* ------------------------------------------------------------------------
\* Properties of parse_ts_list
\* ------------------------------------------------------------------------
Clause(k) == ClauseTable[ptest.clauses[k]]

ClauseIdx == 1..Len(ptest.clauses)

AllValid == \A k \in ClauseIdx : Clause(k).kind = "valid"

\* the first clause of the list that is not valid
FirstInvalid == CHOOSE k \in ClauseIdx :
    /\ Clause(k).kind # "valid"
    /\ \A j \in 1..(k - 1) : Clause(j).kind = "valid"

\* the message parse_ts_list raises for a clause of a kind
ErrorOf(kind) == IF kind = "format" THEN "Bad timestamp" ELSE "End <= start"

\* C13: for a list of valid clauses parse_ts_list returns one pair per
\* clause, in list order, the k-th being (60*m1 + s1, 60*m2 + s2) of the
\* k-th clause.
C13_ValidListsInOrder ==
    (ptest.parsed /\ AllValid)
        => /\ ptest.res.ok
           /\ Len(ptest.res.out) = Len(ptest.clauses)
           /\ \A k \in ClauseIdx :
                 ptest.res.out[k] =
                    <<60 * Clause(k).m1 + Clause(k).s1,
                      60 * Clause(k).m2 + Clause(k).s2>>

\* "0:10-0:20, 1:00-1:05" has been parsed to [(10, 20), (60, 65)]
C13_Witness ==
    /\ ptest.parsed
    /\ ptest.clauses = <<1, 2>>
    /\ ptest.res.out = <<<<10, 20>>, <<60, 65>>>>

\* C14: a list whose clauses that are not valid are all no mm:ss-mm:ss (an
\* empty clause after a trailing comma among them) fails with "Bad
\* timestamp", and one whose clauses that are not valid are all well formed
\* with end <= start (end = start among them) fails with "End <= start".
C14_FormatAndRangeErrors ==
    \A kind \in {"format", "range"} :
        (/\ ptest.parsed
         /\ ~AllValid
         /\ \A k \in ClauseIdx : Clause(k).kind \in {"valid", kind})
            => /\ ~ptest.res.ok
               /\ ptest.res.err = ErrorOf(kind)

\* "0:10-0:20," and "0:20-0:20" have been parsed, to the format error and
\* to the range error
C14_Witness ==
    /\ ptest.parsed
    /\ \/ ptest.clauses = <<1, 9>> /\ ptest.res.err = "Bad timestamp"
       \/ ptest.clauses = <<6>> /\ ptest.res.err = "End <= start"

\* C15: a list with a clause that is not valid yields no pairs at all, and
\* the error raised is that of the first such clause in list order,
\* whatever comes before and after it.
C15_AllOrNothing ==
    (ptest.parsed /\ ~AllValid)
        => /\ ~ptest.res.ok
           /\ ptest.res.out = <<>>
           /\ ptest.res.part = FirstInvalid
           /\ ptest.res.err = ErrorOf(Clause(FirstInvalid).kind)

\* a valid clause followed by one that is no timestamp, and a clause with
\* end <= start followed by one that is no timestamp
C15_Witness ==
    /\ ptest.parsed
    /\ ~ptest.res.ok
    /\ \/ ptest.clauses = <<1, 8>>
       \/ ptest.clauses = <<7, 8>> /\ ptest.res.err = "End <= start"

\* ------------------------------------------------------------------------
\* Properties of the order of the stages and of the strategies
\* ------------------------------------------------------------------------
\* the strategies download_youtube of request r has tried: every command it
\* runs is a yt-dlp command line, with --cookies or without
StrategiesTried(r) ==
    {IF dlLog[r][k].cookies THEN "yt-dlp --cookies" ELSE "yt-dlp" :
        k \in Attempts(r)}

\* C16 as stated: an acquisition that reports failure has tried the
\* headless browser (download_youtube_with_selenium) before.
C16_Original ==
    \A r \in Reqs :
        AcquisitionFailed(r) => "selenium" \in StrategiesTried(r)

\* the form values cut turns down before download_youtube: a blank URL,
\* blank timestamps, "abc", "0:20-0:10"
InvalidForm(f) ==
    \/ f.url \in {<<>>, <<" ">>}
    \/ f.timestamps \in
          { <<>>, <<"a", "b", "c">>,
            <<"0", ":", "2", "0", "-", "0", ":", "1", "0">> }

\* C17: the stages of a request run in the order validate, acquire,
\* extract, concat, each after the one before it succeeded: a request whose
\* URL is blank, whose timestamps are blank or do not parse has invoked no
\* yt-dlp and no ffmpeg and is over with an error; ffmpeg has extracted
\* only from the file a successful acquisition returned; the concat has
\* been invoked only after every range was extracted with exit 0; a request
\* whose acquisition failed has invoked no ffmpeg.
C17_StagesInOrder ==
    \A r \in Reqs :
        /\ (form[r] # NoForm /\ InvalidForm(form[r]))
              => /\ dlLog[r] = <<>> /\ exLog[r] = <<>> /\ catLog[r] = <<>>
                 /\ \A w \in writes : w.req # r
                 /\ CutFailed(r)
        /\ dlLog[r] # <<>> => (form[r] # NoForm /\ segs[r] # <<>>)
        /\ exLog[r] # <<>>
              => /\ dlLog[r] # <<>>
                 /\ Succeeded(dlLog[r][Len(dlLog[r])])
                 /\ src[r] # None
        /\ catLog[r] # <<>>
              => /\ Len(exLog[r]) = Len(segs[r])
                 /\ \A k \in 1..Len(exLog[r]) : exLog[r][k].returncode = 0
                 /\ Len(catLog[r]) = 1
        /\ AcquisitionFailed(r) => (exLog[r] = <<>> /\ catLog[r] = <<>>)

\* one request was turned down for timestamps that do not parse, the
\* acquisition of the other failed
C17_Witness ==
    \E r, q \in Reqs :
        /\ form[r].timestamps = <<"a", "b", "c">>
        /\ form[r].url = <<"A">>
        /\ CutFailed(r)
        /\ AcquisitionFailed(q)

\* download_youtube of request r has returned or raised
DownloadOver(r) ==
    \/ src[r] # None
    \/ AcquisitionFailed(r)

\* the attempt with cookies of request r failed, neither on a rate limit
\* nor on content unavailable: yt-dlp exited non-zero with another
\* diagnostic, or exited 0 and created no file
FirstFailedUnclassified(r) ==
    /\ dlLog[r] # <<>>
    /\ \/ /\ dlLog[r][1].returncode > 0
          /\ ~SaysUnavailable(dlLog[r][1].stderr)
          /\ ~SaysRateLimited(dlLog[r][1].stderr)
       \/ dlLog[r][1].returncode = 0 /\ ~dlLog[r][1].wrote

\* C18 as stated: after an attempt with cookies that failed unclassified
\* (an exit 0 that created no file included) the acquisition has made
\* exactly one more attempt, without cookies, and when that attempt
\* succeeded the file returned is the one it wrote.
C18_Original ==
    \A r \in Reqs :
        (DownloadOver(r) /\ FirstFailedUnclassified(r))
            => /\ Len(dlLog[r]) = 2
               /\ ~dlLog[r][2].cookies
               /\ (dlLog[r][2].returncode = 0 /\ dlLog[r][2].wrote)
                     => (src[r] = DlPath(url[r]) /\ srcBy[r] = r)

\* C19 as stated: once cut_and_concat of a request has returned the final
\* file, none of the clips it extracted is in cuts/ any more.
C19_Original ==
    \A r \in Reqs :
        (pc[r] = "done" /\ result[r].kind = "preview")
            => \A k \in 1..Len(cuts[r]) : ~Exists(CUT_DIR, cuts[r][k])

\* C20: an acquisition invokes yt-dlp at most twice; its first invocation
\* is the one with cookies; a second one is without cookies and is made
\* only after the first has failed (exit non-zero, or exit 0 with no .mp4
\* found).
C20_AtMostTwoAttempts ==
    \A r \in Reqs :
        /\ Len(dlLog[r]) <= 2
        /\ dlLog[r] # <<>> => dlLog[r][1].cookies
        /\ Len(dlLog[r]) = 2
              => /\ ~dlLog[r][2].cookies
                 /\ \/ dlLog[r][1].returncode > 0
                    \/ dlLog[r][1].returncode = 0 /\ ~dlLog[r][1].found

\* a request whose yt-dlp with cookies exited 0 with no .mp4 to be found
\* and which has invoked yt-dlp a second time
C20_Witness ==
    \E r \in Reqs :
        /\ Len(dlLog[r]) = 2
        /\ dlLog[r][1].returncode = 0
        /\ ~dlLog[r][1].found

====
